---- MODULE Spec2Model ----
(***************************************************************************)
(* Obsidian_to_Anki: the sync pass of the plugin (MyPlugin.scanVault) and  *)
(* the FileManager it drives, as a state machine.  A pass is an async      *)
(* function: every await is a suspension point, and the steps between two  *)
(* awaits are one action.  Two pass slots exist because the Scan Vault     *)
(* command starts scanVault without looking at a pass already in flight.   *)
(***************************************************************************)
EXTENDS Integers, Sequences, FiniteSets

\* ------------------------------------------------------------------ bounds
MaxNotes == 2       \* notes a document holds at most
MaxId == 2          \* note identifiers the remote store hands out
MaxEdits == 1       \* edits the user makes to the vault
MaxPasses == 2      \* invocations of the Scan Vault command

Docs == <<"a.md", "b.md">>          \* vault.getMarkdownFiles(), in its order
DocSet == {Docs[i] : i \in 1..Len(Docs)}
Media == {"m1", "m2"}               \* media references a document can embed
Passes == {1, 2}                    \* scanVault invocations that can coexist
NoHash == -1                        \* path is no key of 'File Hashes'

\* ------------------------------------------------------ document text
\* A document text: its notes in document order (0: a note that carries no
\* ID line yet), whether it holds a delete directive, and the media it embeds.
Text(ids, del, media) == [ids |-> ids, del |-> del, media |-> media]

RECURSIVE CodeOfIds(_)
CodeOfIds(s) == IF s = <<>> THEN 1 ELSE CodeOfIds(Tail(s)) * (MaxId + 2) + Head(s) + 1

\* getHash: a deterministic content hash, used as an equality oracle on texts.
getHash(t) ==
    (CodeOfIds(t.ids) * 2 + (IF t.del THEN 1 ELSE 0)) * 4
        + (IF "m1" \in t.media THEN 1 ELSE 0) + (IF "m2" \in t.media THEN 2 ELSE 0)

\* metadataCache.getFirstLinkpathDest: the references that resolve to a file.
Resolves(m) == m = "m1"

\* ------------------------------------------------------ AllFile (src/file)
\* new AllFile(content, path, ...): the text read and the copy kept of it.
AllFile(path, content) ==
    [path |-> path, file |-> content, original_file |-> content, note_ids |-> <<>>]

\* positions of the records without identifier, in document order
NewPositions(t) == {k \in 1..Len(t.ids) : t.ids[k] = 0}
RankOf(t, k) == Cardinality({j \in NewPositions(t) : j <= k})

\* getAddNotes: one create request per record without identifier
getAddNotes(f) == Cardinality(NewPositions(f.original_file))
\* getNoteInfo / getUpdateFields: the records that carry an identifier
getNoteInfo(f) == {f.original_file.ids[k] : k \in 1..Len(f.original_file.ids)} \ {0}
getUpdateFields(f) == getNoteInfo(f)
\* getDeleteNotes: the delete directive of the document
getDeleteNotes(f) == f.original_file.del
\* getChangeDecks / getClearTags / getAddTags: the notes known after call 1
NotesAfter(f) == getNoteInfo(f) \cup ({f.note_ids[k] : k \in 1..Len(f.note_ids)} \ {0})

\* writeIDs: the k-th record that was scanned without identifier gets
\* note_ids[k] when the create succeeded (a null result writes nothing)
writeIDs(f) ==
    LET t == f.file
        r(k) == RankOf(f.original_file, k)
        idOf(k) == IF t.ids[k] # 0 THEN t.ids[k]
                   ELSE IF r(k) <= Len(f.note_ids) THEN f.note_ids[r(k)] ELSE 0
    IN [f EXCEPT !.file = [t EXCEPT !.ids = [k \in 1..Len(t.ids) |-> idOf(k)]]]

\* removeEmpties: the delete directive is stripped from the text
removeEmpties(f) == [f EXCEPT !.file = [f.file EXCEPT !.del = FALSE]]

Paths(fs) == {fs[i].path : i \in 1..Len(fs)}

\* ------------------------------------------------------------------ state
VARIABLES
    vault,            \* app.vault: path -> text
    file_hashes,      \* MyPlugin.file_hashes: path -> fingerprint or NoHash
    added_media,      \* MyPlugin.added_media
    persisted,        \* what saveData wrote last (data.json)
    nextId,           \* remote store: identifiers handed out so far
    created,          \* remote store: the records it holds, as <<path, place in the text>>
    edits,            \* edits made so far
    started,          \* Scan Vault invocations so far
    lastPass,         \* history: how the last undisturbed pass ended
    pc,               \* per pass: where scanVault is suspended
    files,            \* FileManager.files
    ownFiles,         \* FileManager.ownFiles
    genFiles,         \* history: ownFiles as genAllFiles left it
    added_media_set,  \* FileManager.added_media_set
    idx,              \* parse_requests_1: index of the file vault.modify is writing
    req1,             \* history: the actions of the first batched call
    req2,             \* history: the requests of the second batched call
    written,          \* history: paths given to vault.modify by the pass
    notice,           \* parse_requests_1: the 'Please update AnkiConnect!' notice was shown
    abortAt,          \* history: where the pass threw
    solo,             \* history: no other pass in flight since the pass started
    quiet,            \* history: no edit by the user since the pass started
    atStart,          \* history: sync state and data.json at pass start
    prev,             \* history: lastPass as it was at pass start
    savedMid,         \* history: onunload saved while the pass was in flight
    log,              \* history: what the pass has done so far, in order
    src,              \* note parsers: the span and settings a parser is built from
    note,             \* note parsers: the parser object (Note, InlineNote, RegexNote)
    out,              \* note parsers: what the calls made on the object returned
    tfile,            \* folder defaults: a vault file, its folders and their settings
    file_data         \* folder defaults: what dataToFileData made of them

shared == <<vault, file_hashes, added_media, persisted, nextId, created, edits, started, lastPass>>
manager == <<files, ownFiles, genFiles, added_media_set, idx, req1, req2, written, notice>>
history == <<abortAt, solo, quiet, atStart, prev, savedMid, log>>
parser == <<src, note, out>>
defaults == <<tfile, file_data>>
vars == <<shared, pc, manager, history, parser, defaults>>

Terminal == {"idle", "done", "aborted", "noconn"}
Active(p) == pc[p] \notin Terminal

NoPass == [kind |-> "none", changed |-> {}, written |-> {}, failed |-> {}]
NoReq1 ==
    [sent |-> FALSE, add |-> <<>>, info |-> <<>>, upd |-> <<>>, del |-> <<>>, media |-> {},
     uploads |-> <<>>]
NoReq2 == [sent |-> FALSE, decks |-> <<>>, clear |-> <<>>, tags |-> <<>>]
SyncState == [hashes |-> file_hashes, media |-> added_media]
NoStart == [hashes |-> [d \in DocSet |-> NoHash], media |-> {}, persisted |-> [hashes |-> [d \in DocSet |-> NoHash], media |-> {}]]

NoHashes == [d \in DocSet |-> NoHash]

\* What onload finds: a fresh data.json (no fingerprint, nothing uploaded), or
\* the data.json of an earlier session that synced a.md.
Sessions ==
    {[vault |-> [d \in DocSet |-> IF d = "a.md" THEN Text(<<0>>, FALSE, {"m1"})
                                  ELSE Text(<<0>>, FALSE, {"m2"})],
      hashes |-> NoHashes, media |-> {}, nextId |-> 0],
     [vault |-> [d \in DocSet |-> IF d = "a.md" THEN Text(<<1>>, FALSE, {"m1"})
                                  ELSE Text(<<0>>, FALSE, {})],
      hashes |-> [NoHashes EXCEPT !["a.md"] = getHash(Text(<<1>>, FALSE, {"m1"}))],
      media |-> {"m1"}, nextId |-> 1]}

\* no span is being parsed
NoSrc == [kind |-> "none"]
NoNote == [kind |-> "none"]

\* onload, lines 182-207: the sync state is what data.json holds
onload ==
    /\ \E s \in Sessions :
         /\ vault = s.vault
         /\ file_hashes = s.hashes
         /\ added_media = s.media
         /\ persisted = [hashes |-> s.hashes, media |-> s.media]
         /\ nextId = s.nextId
         /\ created = {c \in DocSet \X (1..MaxNotes) :
                          c[2] <= Len(s.vault[c[1]].ids) /\ s.vault[c[1]].ids[c[2]] # 0}
    /\ edits = 0
    /\ started = 0
    /\ lastPass = NoPass
    /\ pc = [p \in Passes |-> "idle"]
    /\ files = [p \in Passes |-> <<>>]
    /\ ownFiles = [p \in Passes |-> <<>>]
    /\ genFiles = [p \in Passes |-> <<>>]
    /\ added_media_set = [p \in Passes |-> {}]
    /\ idx = [p \in Passes |-> 0]
    /\ req1 = [p \in Passes |-> NoReq1]
    /\ req2 = [p \in Passes |-> NoReq2]
    /\ written = [p \in Passes |-> {}]
    /\ notice = [p \in Passes |-> FALSE]
    /\ abortAt = [p \in Passes |-> "none"]
    /\ solo = [p \in Passes |-> TRUE]
    /\ quiet = [p \in Passes |-> TRUE]
    /\ atStart = [p \in Passes |-> NoStart]
    /\ prev = [p \in Passes |-> NoPass]
    /\ savedMid = [p \in Passes |-> FALSE]
    /\ log = [p \in Passes |-> <<>>]

\* no file is being given its defaults
NoFile == [depth |-> -1]
NoFileData == [deckName |-> "", tags |-> <<>>]

Init ==
    /\ onload
    /\ src = NoSrc /\ note = NoNote /\ out = <<>>
    /\ tfile = NoFile /\ file_data = NoFileData

\* ---------------------------------------------------------------- helpers
\* the value of a per-pass field when its slot is (re)used by pass p
Fresh(f, v, p) == [q \in Passes |-> IF q = p \/ ~Active(q) THEN v ELSE f[q]]

\* faulty variant: only a path without fingerprint counts as changed
IsChanged_onlyNew(f) == file_hashes[f.path] = NoHash

\* initialiseFiles, lines 185-190: the fingerprint is absent or differs from
\* the hash of the text read
IsChanged(f) == ~(file_hashes[f.path] # NoHash /\ getHash(f.file) = file_hashes[f.path])
\* initialiseFiles, lines 180-200: the changed files, in their order
FilesChanged(all) == SelectSeq(all, IsChanged)

\* faulty variant: the vault-file list is left as it is
ObFilesChanged_all(obfiles, all) == obfiles

\* initialiseFiles, lines 181-200: this.files[i] of every changed ownFiles[i]
ObFilesChanged(obfiles, all) ==
    LET kept == {i \in 1..Len(all) : IsChanged(all[i])}
        nth(k) == CHOOSE i \in kept : Cardinality({j \in kept : j <= i}) = k
    IN [k \in 1..Cardinality(kept) |-> obfiles[nth(k)]]

\* faulty variant: the uploaded-media set is not consulted
MediaToAdd_all(fs, have) == {m \in UNION {fs[i].file.media : i \in 1..Len(fs)} : Resolves(m)}

\* requests_1, lines 220-241: the media links that get an upload request
MediaToAdd(fs, have) ==
    {m \in UNION {fs[i].file.media : i \in 1..Len(fs)} : m \notin have /\ Resolves(m)}

\* formatter.detectedMedia: the links of a text in the order of detection
MediaSeq == <<"m1", "m2">>
\* requests_1, line 221: difference(formatter.detectedMedia, added_media_set)
difference(t, have) == SelectSeq(MediaSeq, LAMBDA m : m \in t.media /\ m \notin have)

\* faulty variant: a located link is requested but not added to the set
RECURSIVE storeLinks_notAdding(_, _)
storeLinks_notAdding(links, acc) ==
    IF links = <<>> THEN acc
    ELSE storeLinks_notAdding(Tail(links),
             IF Resolves(Head(links))
             THEN [temp |-> Append(acc.temp, Head(links)), set |-> acc.set]
             ELSE acc)

\* requests_1, lines 222-240: the links of one file; a link that resolves is
\* added to added_media_set and gets a storeMediaFileByPath request
RECURSIVE storeLinks(_, _)
storeLinks(links, acc) ==
    IF links = <<>> THEN acc
    ELSE storeLinks(Tail(links),
             IF Resolves(Head(links))
             THEN [temp |-> Append(acc.temp, Head(links)), set |-> acc.set \cup {Head(links)}]
             ELSE acc)

\* requests_1, lines 219-243: the loop over ownFiles that fills temp
RECURSIVE storeMedia(_, _)
storeMedia(fs, acc) ==
    IF fs = <<>> THEN acc
    ELSE storeMedia(Tail(fs), storeLinks(difference(Head(fs).file, acc.set), acc))

\* requests_1, lines 204-243: the five multi actions plus the media uploads
Requests1(fs, have) ==
    [sent |-> TRUE,
     add |-> [i \in 1..Len(fs) |-> getAddNotes(fs[i])],
     info |-> [i \in 1..Len(fs) |-> getNoteInfo(fs[i])],
     upd |-> [i \in 1..Len(fs) |-> getUpdateFields(fs[i])],
     del |-> [i \in 1..Len(fs) |-> getDeleteNotes(fs[i])],
     media |-> MediaToAdd(fs, have),
     uploads |-> storeMedia(fs, [temp |-> <<>>, set |-> have]).temp]

\* requests_2, lines 339-357: three multi requests, one entry per file each
Requests2(fs) ==
    [sent |-> TRUE,
     decks |-> [i \in 1..Len(fs) |-> NotesAfter(fs[i])],
     clear |-> [i \in 1..Len(fs) |-> NotesAfter(fs[i])],
     tags |-> [i \in 1..Len(fs) |-> NotesAfter(fs[i])]]

\* faulty variant: the hash is taken of the text as it was read
getHashes_original(fs) ==
    [d \in Paths(fs) |-> getHash(fs[CHOOSE i \in 1..Len(fs) : fs[i].path = d].original_file)]

\* getHashes: path -> hash of the text the manager holds for it
getHashes(fs) == [d \in Paths(fs) |-> getHash(fs[CHOOSE i \in 1..Len(fs) : fs[i].path = d].file)]

\* saveAllData: the plugin's sync state goes to data.json
saveAllData(hashes, media) == persisted' = [hashes |-> hashes, media |-> media]

\* faulty variant: the hashes of the pass are dropped instead of merged
MergeHashes_none(old, hashes) == old

\* faulty variant: the hashes of the pass replace the map
MergeHashes_replacing(old, hashes) == [d \in DocSet |-> IF d \in DOMAIN hashes THEN hashes[d] ELSE NoHash]

\* the fingerprint map after scanVault, lines 174-177
MergeHashes(old, hashes) == [d \in DocSet |-> IF d \in DOMAIN hashes THEN hashes[d] ELSE old[d]]

\* the create slots of call 1: <<file index, rank of the record>>
Slots(fs) == {s \in (1..Len(fs)) \X (1..MaxNotes) : s[2] <= getAddNotes(fs[s[1]])}
Before(s, t) == s[1] < t[1] \/ (s[1] = t[1] /\ s[2] <= t[2])

\* the record a create slot stands for: its path and its place in the text
PlaceOf(fs, sl) ==
    <<fs[sl[1]].path,
      CHOOSE k \in NewPositions(fs[sl[1]].original_file) : RankOf(fs[sl[1]].original_file, k) = sl[2]>>

\* The response of the remote store to call 1: ok is the set of create slots
\* that succeed (fresh identifiers, in request order); fault names one
\* erroneous sub-response besides, with the file it belongs to.
FaultKinds ==
    {"none", "add_top", "add_file", "info_top", "info_file", "tags", "update", "delete", "media", "media_top"}
\* parse_requests_1, lines 273, 274, 307: AnkiConnect.parse outside any try;
\* line 260: response[5].result.length of an uploads action that has no result
Fatal == {"info_top", "info_file", "tags", "media_top"}

\* parse_requests_1, lines 260-265: the first upload sub-response has an error
MediaNotice(r, fault) == fault = "media" /\ r.media # {}

\* parse_requests_1, lines 266-303: note_ids of file i out of the response
NoteIdsOf(fs, i, ok, fault, at) ==
    IF fault = "add_top" \/ (fault = "add_file" /\ at = i) THEN <<>>
    ELSE [k \in 1..getAddNotes(fs[i]) |->
            IF <<i, k>> \in ok
            THEN nextId + Cardinality({s \in ok : Before(s, <<i, k>>)})
            ELSE 0]

\* parse_requests_1, lines 318-321: a file of the write-back loop, its text
\* after writeIDs and removeEmpties, and whether vault.modify is called for it
Rewritten(f) == removeEmpties(writeIDs(f))
\* faulty variant: every file of the loop is written
NeedsModify_always(f) == TRUE
NeedsModify(f) == Rewritten(f).file # f.original_file

\* parse_requests_1, lines 314-325: the loop runs from file i on to the first
\* file it has to write (where it awaits vault.modify), or to its end
StopAt(fs, i) ==
    LET w == {j \in i..Len(fs) : NeedsModify(fs[j])}
    IN IF w = {} THEN Len(fs) + 1 ELSE CHOOSE j \in w : \A k \in w : j <= k
LoopFrom(fs, i) == [k \in 1..Len(fs) |-> IF i <= k /\ k <= StopAt(fs, i) THEN Rewritten(fs[k]) ELSE fs[k]]

\* the documents a completed pass leaves with a record without identifier
Failed(fs) == {fs[i].path : i \in {j \in 1..Len(fs) : NewPositions(fs[j].file) # {}}}

Ended(p, kind) ==
    IF solo[p] /\ quiet[p]
    THEN [kind |-> kind, changed |-> Paths(ownFiles[p]), written |-> written[p],
          failed |-> IF kind = "done" THEN Failed(ownFiles[p]) ELSE {}]
    ELSE NoPass

\* a throw inside scanVault: the promise rejects, nothing else runs
Throw(p, where) ==
    /\ pc' = [pc EXCEPT ![p] = "aborted"]
    /\ abortAt' = [abortAt EXCEPT ![p] = where]
    /\ lastPass' = Ended(p, "aborted")
    /\ log' = log

\* the write-back loop goes on from file i of fs: to the next vault.modify,
\* or through requests_2 to the second call
Continue(p, fs, i, events) ==
    /\ ownFiles' = [ownFiles EXCEPT ![p] = LoopFrom(fs, i)]
    /\ idx' = [idx EXCEPT ![p] = StopAt(fs, i)]
    /\ IF StopAt(fs, i) <= Len(fs)
       THEN /\ pc' = [pc EXCEPT ![p] = "modify"]
            /\ req2' = req2
            /\ log' = [log EXCEPT ![p] = @ \o events]
       ELSE /\ pc' = [pc EXCEPT ![p] = "call2"]
            /\ req2' = [req2 EXCEPT ![p] = Requests2(LoopFrom(fs, i))]
            /\ log' = [log EXCEPT ![p] = @ \o events \o <<"call2">>]

\* ---------------------------------------------------------------- actions
\* onload, lines 211-217: the Scan Vault command callback calls scanVault,
\* whatever is in flight; scanVault runs to its first await (line 157).
ScanVaultCommand(p) ==
    /\ started < MaxPasses
    /\ ~Active(p)
    /\ \A q \in Passes : q < p => Active(q)
    /\ started' = started + 1
    /\ pc' = [q \in Passes |-> IF q = p THEN "probe" ELSE IF Active(q) THEN pc[q] ELSE "idle"]
    /\ files' = Fresh(files, <<>>, p)
    /\ ownFiles' = Fresh(ownFiles, <<>>, p)
    /\ genFiles' = Fresh(genFiles, <<>>, p)
    /\ added_media_set' = Fresh(added_media_set, {}, p)
    /\ idx' = Fresh(idx, 0, p)
    /\ req1' = Fresh(req1, NoReq1, p)
    /\ req2' = Fresh(req2, NoReq2, p)
    /\ written' = Fresh(written, {}, p)
    /\ notice' = Fresh(notice, FALSE, p)
    /\ abortAt' = Fresh(abortAt, "none", p)
    /\ savedMid' = Fresh(savedMid, FALSE, p)
    /\ log' = [Fresh(log, <<>>, p) EXCEPT ![p] = <<"probe">>]
    /\ solo' = [q \in Passes |-> IF q = p THEN \A r \in Passes \ {p} : ~Active(r)
                                 ELSE IF Active(q) THEN FALSE ELSE TRUE]
    /\ quiet' = Fresh(quiet, TRUE, p)
    /\ atStart' = [Fresh(atStart, NoStart, p) EXCEPT
                     ![p] = [hashes |-> file_hashes, media |-> added_media, persisted |-> persisted]]
    /\ prev' = [Fresh(prev, NoPass, p) EXCEPT
                  ![p] = IF \A r \in Passes \ {p} : ~Active(r) THEN lastPass ELSE NoPass]
    /\ UNCHANGED <<vault, file_hashes, added_media, persisted, nextId, created, edits, lastPass>>
    /\ UNCHANGED <<parser, defaults>>

\* faulty variant: the manager is built before the probe is awaited
ProbeFails_late(p) ==
    /\ pc[p] = "probe"
    /\ pc' = [pc EXCEPT ![p] = "noconn"]
    /\ files' = [files EXCEPT ![p] = Docs]
    /\ UNCHANGED <<shared, ownFiles, genFiles, added_media_set, idx, req1, req2, written, notice, history>>
    /\ UNCHANGED <<parser, defaults>>

\* scanVault, lines 156-160: the probe fails, the pass returns
ProbeFails(p) ==
    /\ pc[p] = "probe"
    /\ pc' = [pc EXCEPT ![p] = "noconn"]
    /\ UNCHANGED <<shared, manager, history>>
    /\ UNCHANGED <<parser, defaults>>

\* scanVault, lines 161-171: connected; the FileManager is constructed and
\* genAllFiles awaits its first vault.read
ProbeSucceeds(p) ==
    /\ pc[p] = "probe"
    /\ pc' = [pc EXCEPT ![p] = "gen"]
    /\ files' = [files EXCEPT ![p] = Docs]
    /\ ownFiles' = [ownFiles EXCEPT ![p] = <<>>]
    /\ added_media_set' = [added_media_set EXCEPT ![p] = added_media]
    /\ UNCHANGED <<shared, genFiles, idx, req1, req2, written, notice, history>>
    /\ UNCHANGED <<parser, defaults>>

\* genAllFiles: a vault.read returns, the next one is awaited
genAllFiles(p) ==
    /\ pc[p] = "gen"
    /\ Len(ownFiles[p]) + 1 < Len(files[p])
    /\ LET d == files[p][Len(ownFiles[p]) + 1]
       IN ownFiles' = [ownFiles EXCEPT ![p] = Append(@, AllFile(d, vault[d]))]
    /\ log' = [log EXCEPT ![p] = Append(@, "read")]
    /\ UNCHANGED <<shared, pc, files, genFiles, added_media_set, idx, req1, req2, written, notice>>
    /\ UNCHANGED <<abortAt, solo, quiet, atStart, prev, savedMid>>
    /\ UNCHANGED <<parser, defaults>>

\* initialiseFiles and requests_1 up to line 254: the last vault.read returns,
\* the changed files are kept, the actions are built and call 1 is awaited
initialiseFiles(p) ==
    /\ pc[p] = "gen"
    /\ Len(ownFiles[p]) + 1 = Len(files[p])
    /\ LET d == files[p][Len(ownFiles[p]) + 1]
           all == Append(ownFiles[p], AllFile(d, vault[d]))
           files_changed == FilesChanged(all)
       IN /\ genFiles' = [genFiles EXCEPT ![p] = all]
          /\ ownFiles' = [ownFiles EXCEPT ![p] = files_changed]
          /\ files' = [files EXCEPT ![p] = ObFilesChanged(files[p], all)]
          /\ req1' = [req1 EXCEPT ![p] = Requests1(files_changed, added_media_set[p])]
          /\ added_media_set' = [added_media_set EXCEPT
                                   ![p] = @ \cup MediaToAdd(files_changed, added_media_set[p])]
    /\ pc' = [pc EXCEPT ![p] = "call1"]
    /\ log' = [log EXCEPT ![p] = @ \o <<"read", "call1">>]
    /\ UNCHANGED <<shared, idx, req2, written, notice, abortAt, solo, quiet, atStart, prev, savedMid>>
    /\ UNCHANGED <<parser, defaults>>

\* requests_1, line 254: AnkiConnect.invoke of call 1 rejects
Call1Fails(p) ==
    /\ pc[p] = "call1"
    /\ Throw(p, "call1")
    /\ UNCHANGED <<vault, file_hashes, added_media, persisted, nextId, created, edits, started>>
    /\ UNCHANGED <<manager, solo, quiet, atStart, prev, savedMid>>
    /\ UNCHANGED <<parser, defaults>>

\* parse_requests_1: call 1 returns; its response is parsed and the write-back
\* loop runs to its first vault.modify, or through to call 2
parse_requests_1(p) ==
    /\ pc[p] = "call1"
    /\ \E ok \in SUBSET Slots(ownFiles[p]), fault \in FaultKinds, at \in 0..Len(ownFiles[p]) :
         /\ nextId + Cardinality(ok) <= MaxId
         /\ (fault \in {"add_file", "info_file"}) <=> (at # 0)
         /\ fault = "add_top" => ok = {}
         /\ fault = "add_file" => \A s \in ok : s[1] # at
         /\ nextId' = nextId + Cardinality(ok)
         /\ created' = created \cup {PlaceOf(ownFiles[p], sl) : sl \in ok}
         /\ notice' = [notice EXCEPT ![p] = MediaNotice(req1[p], fault)]
         /\ LET parsed == [i \in 1..Len(ownFiles[p]) |->
                            [ownFiles[p][i] EXCEPT !.note_ids = NoteIdsOf(ownFiles[p], i, ok, fault, at)]]
            IN IF fault \in Fatal
               THEN /\ Throw(p, fault)
                    /\ ownFiles' = [ownFiles EXCEPT ![p] = IF fault = "info_file" THEN parsed ELSE @]
                    /\ UNCHANGED <<idx, req2>>
               ELSE /\ Continue(p, parsed, 1, <<>>)
                    /\ UNCHANGED <<abortAt, lastPass>>
    /\ UNCHANGED <<vault, file_hashes, added_media, persisted, edits, started>>
    /\ UNCHANGED <<files, genFiles, added_media_set, req1, written>>
    /\ UNCHANGED <<solo, quiet, atStart, prev, savedMid>>
    /\ UNCHANGED <<parser, defaults>>

\* faulty variant: a document is marked synced as soon as it is written
writeBack_marking(p) ==
    /\ pc[p] = "modify"
    /\ LET ownFile == ownFiles[p][idx[p]]
           obFile == files[p][idx[p]]
       IN /\ vault' = [vault EXCEPT ![obFile] = ownFile.file]
          /\ written' = [written EXCEPT ![p] = @ \cup {obFile}]
          /\ file_hashes' = [file_hashes EXCEPT ![ownFile.path] = getHash(ownFile.file)]
    /\ Continue(p, ownFiles[p], idx[p] + 1, <<"write">>)
    /\ UNCHANGED <<added_media, persisted, nextId, created, edits, started, lastPass>>
    /\ UNCHANGED <<files, genFiles, added_media_set, req1, notice, abortAt, solo, quiet, atStart, prev, savedMid>>
    /\ UNCHANGED <<parser, defaults>>

\* parse_requests_1, line 322: vault.modify returns, the loop goes on
writeBack(p) ==
    /\ pc[p] = "modify"
    /\ LET ownFile == ownFiles[p][idx[p]]
           obFile == files[p][idx[p]]
       IN /\ vault' = [vault EXCEPT ![obFile] = ownFile.file]
          /\ written' = [written EXCEPT ![p] = @ \cup {obFile}]
    /\ Continue(p, ownFiles[p], idx[p] + 1, <<"write">>)
    /\ UNCHANGED <<file_hashes, added_media, persisted, nextId, created, edits, started, lastPass>>
    /\ UNCHANGED <<files, genFiles, added_media_set, req1, notice, abortAt, solo, quiet, atStart, prev, savedMid>>
    /\ UNCHANGED <<parser, defaults>>

\* parse_requests_1, line 322: vault.modify rejects
ModifyFails(p) ==
    /\ pc[p] = "modify"
    /\ Throw(p, "write")
    /\ UNCHANGED <<vault, file_hashes, added_media, persisted, nextId, created, edits, started>>
    /\ UNCHANGED <<manager, solo, quiet, atStart, prev, savedMid>>
    /\ UNCHANGED <<parser, defaults>>

\* faulty variant: the fingerprints are merged before call 2 is awaited
Call2Fails_advancing(p) ==
    /\ pc[p] = "call2"
    /\ Throw(p, "call2")
    /\ file_hashes' = MergeHashes(file_hashes, getHashes(ownFiles[p]))
    /\ UNCHANGED <<vault, added_media, persisted, nextId, created, edits, started>>
    /\ UNCHANGED <<manager, solo, quiet, atStart, prev, savedMid>>
    /\ UNCHANGED <<parser, defaults>>

\* requests_2, line 358: AnkiConnect.invoke of call 2 rejects
Call2Fails(p) ==
    /\ pc[p] = "call2"
    /\ Throw(p, "call2")
    /\ UNCHANGED <<vault, file_hashes, added_media, persisted, nextId, created, edits, started>>
    /\ UNCHANGED <<manager, solo, quiet, atStart, prev, savedMid>>
    /\ UNCHANGED <<parser, defaults>>

\* faulty variant: the sync state is saved before it is advanced
scanVaultEnd_saveFirst(p) ==
    /\ pc[p] = "call2"
    /\ saveAllData(file_hashes, added_media)
    /\ added_media' = added_media_set[p]
    /\ file_hashes' = MergeHashes(file_hashes, getHashes(ownFiles[p]))
    /\ pc' = [pc EXCEPT ![p] = "done"]
    /\ lastPass' = Ended(p, "done")
    /\ log' = [log EXCEPT ![p] = @ \o <<"save", "hashes">>]
    /\ UNCHANGED <<vault, nextId, created, edits, started, manager, abortAt, solo, quiet, atStart, prev, savedMid>>
    /\ UNCHANGED <<parser, defaults>>

\* scanVault, lines 173-179: call 2 returned; the sync state is advanced and saved
scanVaultEnd(p) ==
    /\ pc[p] = "call2"
    /\ added_media' = added_media_set[p]
    /\ file_hashes' = MergeHashes(file_hashes, getHashes(ownFiles[p]))
    /\ saveAllData(file_hashes', added_media')
    /\ pc' = [pc EXCEPT ![p] = "done"]
    /\ lastPass' = Ended(p, "done")
    /\ log' = [log EXCEPT ![p] = @ \o <<"hashes", "save">>]
    /\ UNCHANGED <<vault, nextId, created, edits, started, manager, abortAt, solo, quiet, atStart, prev, savedMid>>
    /\ UNCHANGED <<parser, defaults>>

\* onunload: saveAllData, whatever pass is in flight
onunload ==
    /\ saveAllData(file_hashes, added_media)
    /\ savedMid' = [q \in Passes |-> savedMid[q] \/ Active(q)]
    /\ UNCHANGED <<vault, file_hashes, added_media, nextId, created, edits, started, lastPass>>
    /\ UNCHANGED <<pc, manager, abortAt, solo, quiet, atStart, prev, log>>
    /\ UNCHANGED <<parser, defaults>>

\* What the user can do to a text: add a note, add a delete directive, embed
\* a media reference.
Edits(t) ==
    (IF Len(t.ids) < MaxNotes THEN {[t EXCEPT !.ids = Append(@, 0)]} ELSE {})
    \cup (IF t.del THEN {} ELSE {[t EXCEPT !.del = TRUE]})
    \cup {[t EXCEPT !.media = @ \cup {m}] : m \in Media \ t.media}

\* The user edits a document of the vault.
UserEdits(d) ==
    /\ edits < MaxEdits
    /\ \E t \in Edits(vault[d]) : vault' = [vault EXCEPT ![d] = t]
    /\ edits' = edits + 1
    /\ lastPass' = NoPass
    /\ quiet' = [q \in Passes |-> IF pc[q] = "idle" THEN quiet[q] ELSE FALSE]
    /\ UNCHANGED <<file_hashes, added_media, persisted, nextId, created, started>>
    /\ UNCHANGED <<pc, manager, abortAt, solo, atStart, prev, savedMid, log>>
    /\ UNCHANGED <<parser, defaults>>

Next ==
    \/ \E p \in Passes : ScanVaultCommand(p)
    \/ \E p \in Passes : ProbeFails(p)
    \/ \E p \in Passes : ProbeSucceeds(p)
    \/ \E p \in Passes : genAllFiles(p)
    \/ \E p \in Passes : initialiseFiles(p)
    \/ \E p \in Passes : Call1Fails(p)
    \/ \E p \in Passes : parse_requests_1(p)
    \/ \E p \in Passes : writeBack(p)
    \/ \E p \in Passes : ModifyFails(p)
    \/ \E p \in Passes : Call2Fails(p)
    \/ \E p \in Passes : scanVaultEnd(p)
    \/ onunload
    \/ \E d \in DocSet : UserEdits(d)

Spec == Init /\ [][Next]_vars

\* ------------------------------------------------------------ note parsers
\* The parsers of a span (src/note): Note for a block, InlineNote for an
\* inline span, RegexNote for a match of a custom regexp.  A text is a
\* sequence of tokens; a token is a character or a piece of markup taken
\* whole: "Tags: ", "ID: 1", "{c}" for a cloze {{c1::..}}, "{k}" for a curly
\* cloze {..} that the formatter turns into a cloze when asked to.
MaxBody == 2        \* body lines of a block, words of an inline span
MaxGroups == 3      \* capture groups of a custom regexp besides tags and ID
MaxCalls == 2       \* calls made on one parser object

CLOZE_ERROR == 42
NOTE_TYPE_ERROR == 69
null == -1          \* identifier: null
NaN == -2           \* parseInt of something that is no number

Ws == {" ", "\n"}
RECURSIVE TrimLeft(_)
TrimLeft(s) == IF s # <<>> /\ Head(s) \in Ws THEN TrimLeft(Tail(s)) ELSE s
RECURSIVE TrimRight(_)
TrimRight(s) == IF s # <<>> /\ s[Len(s)] \in Ws THEN TrimRight(SubSeq(s, 1, Len(s) - 1)) ELSE s
\* String.prototype.trim
Trim(s) == TrimRight(TrimLeft(s))
\* String.prototype.startsWith, String.prototype.slice(n)
StartsWith(s, p) == Len(p) <= Len(s) /\ SubSeq(s, 1, Len(p)) = p
Slice(s, n) == SubSeq(s, n + 1, Len(s))
\* index of the first token of s that is in set T, 0 if there is none
IndexOf(s, T) ==
    IF \A i \in 1..Len(s) : s[i] \notin T THEN 0
    ELSE CHOOSE i \in 1..Len(s) : s[i] \in T /\ \A j \in 1..(i - 1) : s[j] \notin T
\* String.prototype.split(sep)
RECURSIVE Split(_, _)
Split(s, sep) ==
    IF IndexOf(s, {sep}) = 0 THEN <<s>>
    ELSE <<SubSeq(s, 1, IndexOf(s, {sep}) - 1)>> \o Split(Slice(s, IndexOf(s, {sep})), sep)
\* Array.prototype.join(sep)
RECURSIVE Join(_, _)
Join(ls, sep) ==
    IF ls = <<>> THEN <<>>
    ELSE IF Len(ls) = 1 THEN ls[1]
    ELSE ls[1] \o <<sep>> \o Join(Tail(ls), sep)
Pop(l) == SubSeq(l, 1, Len(l) - 1)
Last(l) == l[Len(l)]
Range(l) == {l[i] : i \in 1..Len(l)}
SeqsUpTo(S, n) == UNION {[1..k -> S] : k \in 0..n}

\* the schema registry: note type -> field names in declared order
A == <<"A">>
B == <<"B">>
AB == <<"A", ":", "B">>
fields_dict == [Basic |-> <<A, B>>, Cloze |-> <<A, B>>, Odd |-> <<A, AB>>, Rev |-> <<AB, A>>]
NoteTypes == DOMAIN fields_dict \cup {"Nope"}

TAG_PREFIX == "Tags: "
\* the identifiers an ID line or an ID group can hold
IdNums == {1, CLOZE_ERROR, NOTE_TYPE_ERROR}
IdLine(n) == CASE n = 1 -> "ID: 1" [] n = CLOZE_ERROR -> "ID: 42" [] OTHER -> "ID: 69"
IdGroup(n) == CASE n = 1 -> "1" [] n = CLOZE_ERROR -> "42" [] OTHER -> "69"
IdTokens == {IdLine(n) : n \in IdNums}
\* parseInt
parseInt(t) ==
    IF \E n \in IdNums : t \in {IdLine(n), IdGroup(n)}
    THEN CHOOSE n \in IdNums : t \in {IdLine(n), IdGroup(n)}
    ELSE NaN
\* a capture group that did not participate in the match, and the property
\* name an undefined key turns into
UndefGroup == <<"?">>
UndefKey == <<"undefined">>

\* ------------------------------------------------------------ the spans
Payloads == {<<>>, <<"x">>, <<"{k}">>, <<"{c}">>}
Prefixes == {<<>>, <<"A", ":">>, <<"B", ":">>, <<"A", ":", "B", ":">>}
BodyLines == {p \o w : p \in Prefixes, w \in Payloads}
Words == {<<"A", ":">>, <<"B", ":">>, <<"A", ":", "B", ":">>, <<"x">>, <<"{k}">>, <<"{c}">>}
Groups == {UndefGroup, <<"x">>, <<" ", "{c}">>}

\* a span: its kind, note type and body, whether it ends with a tags line and
\* an ID line, the identifier of the ID line, and the curly-cloze setting
AllSpans ==
    [kind : {"block"}, type : NoteTypes, body : SeqsUpTo(BodyLines, MaxBody),
     tags : BOOLEAN, id : BOOLEAN, idnum : IdNums, curly : BOOLEAN]
    \cup [kind : {"inline"}, type : NoteTypes, body : SeqsUpTo(Words, MaxBody),
          tags : BOOLEAN, id : BOOLEAN, idnum : IdNums, curly : BOOLEAN]
    \cup [kind : {"regex"}, type : DOMAIN fields_dict, body : SeqsUpTo(Groups, MaxGroups),
          tags : BOOLEAN, id : BOOLEAN, idnum : IdNums, curly : BOOLEAN]
Spans == {s \in AllSpans : s.id \/ s.idnum = 1}

\* the text of a block or inline span, the match array of a regexp span
SpanText(s) ==
    IF s.kind = "block"
    THEN Join(<<<<s.type>>>> \o s.body
                \o (IF s.tags THEN <<<<TAG_PREFIX, "t">>>> ELSE <<>>)
                \o (IF s.id THEN <<<<IdLine(s.idnum)>>>> ELSE <<>>), "\n")
    ELSE Join(<<<<"[", s.type, "]">>>> \o s.body
                \o (IF s.tags THEN <<<<TAG_PREFIX, "t">>>> ELSE <<>>)
                \o (IF s.id THEN <<<<IdLine(s.idnum)>>>> ELSE <<>>), " ")
SpanMatch(s) ==
    <<<<"*">>>> \o s.body
        \o (IF s.tags THEN <<<<TAG_PREFIX, "t">>>> ELSE <<>>)
        \o (IF s.id THEN <<<<IdGroup(s.idnum)>>>> ELSE <<>>)

\* ------------------------------------------------------------ constructors
\* the fields of a parser object that its class does not use
NoFields ==
    [kind |-> "none", text |-> <<>>, split_text |-> <<>>, match |-> <<>>, note_type |-> "", no_note_type |-> FALSE,
     field_names |-> <<>>, current_field |-> UndefKey, identifier |-> null, tags |-> <<>>,
     curly_cloze |-> FALSE]

\* AbstractNote constructor, lines 69-77: the schema is looked up
WithSchema(n, note_type, curly) ==
    IF note_type \notin DOMAIN fields_dict
    THEN [n EXCEPT !.note_type = note_type, !.no_note_type = TRUE]
    ELSE [n EXCEPT !.note_type = note_type, !.field_names = fields_dict[note_type],
                   !.current_field = fields_dict[note_type][1], !.curly_cloze = curly]

\* the name a line or a bracket holds
NameOf(line) == IF Len(line) = 1 THEN line[1] ELSE ""

\* new Note(...): lines 61-68 with Note.getSplitText, getIdentifier, getTags,
\* getNoteType (lines 135-157)
NewNote(text, curly) ==
    LET split0 == Split(Trim(text), "\n")
        hasId == IndexOf(Last(split0), IdTokens) # 0
        identifier == IF hasId THEN parseInt(Last(split0)[IndexOf(Last(split0), IdTokens)]) ELSE null
        split1 == IF hasId THEN Pop(split0) ELSE split0
        hasTags == StartsWith(Last(split1), <<TAG_PREFIX>>)
        tags == IF hasTags THEN Split(Slice(Last(split1), 1), " ") ELSE <<>>
        split2 == IF hasTags THEN Pop(split1) ELSE split1
    IN WithSchema([NoFields EXCEPT !.kind = "block", !.text = Trim(text), !.split_text = split2,
                                   !.identifier = identifier, !.tags = tags],
                  NameOf(split2[1]), curly)

\* new InlineNote(...): lines 61-68 with InlineNote.getIdentifier, getTags,
\* getNoteType (lines 198-226)
NewInlineNote(text, curly) ==
    LET text0 == Trim(text)
        i == IndexOf(text0, IdTokens)
        identifier == IF i # 0 THEN parseInt(text0[i]) ELSE null
        text1 == IF i # 0 THEN Trim(SubSeq(text0, 1, i - 1)) ELSE text0
        j == IndexOf(text1, {TAG_PREFIX})
        tags == IF j # 0 THEN Split(Slice(text1, j), " ") ELSE <<>>
        text2 == IF j # 0 THEN Trim(SubSeq(text1, 1, j - 1)) ELSE text1
        open == IndexOf(text2, {"["})
        close == open + IndexOf(Slice(text2, open), {"]"})
    IN WithSchema([NoFields EXCEPT !.kind = "inline", !.text = Slice(text2, close),
                                   !.split_text = Split(text0, " "),
                                   !.identifier = identifier, !.tags = tags],
                  NameOf(SubSeq(text2, open + 1, close - 1)), curly)

\* faulty variant: the tags group is popped before the ID group
NewRegexNote_tagsFirst(match, note_type, tags, id, curly) ==
    LET match1 == IF tags THEN Pop(match) ELSE match
        match2 == IF id THEN Pop(match1) ELSE match1
    IN [NoFields EXCEPT
          !.kind = "regex",
          !.match = match2,
          !.note_type = note_type,
          !.identifier = IF id THEN parseInt(NameOf(Last(match1))) ELSE null,
          !.tags = IF tags THEN Split(Slice(Last(match), 1), " ") ELSE <<>>,
          !.field_names = fields_dict[note_type],
          !.curly_cloze = curly]

\* new RegexNote(...), lines 276-283: the ID group is popped first, then the
\* tags group
NewRegexNote(match, note_type, tags, id, curly) ==
    LET match1 == IF id THEN Pop(match) ELSE match
        match2 == IF tags THEN Pop(match1) ELSE match1
    IN [NoFields EXCEPT
          !.kind = "regex",
          !.match = match2,
          !.note_type = note_type,
          !.identifier = IF id THEN parseInt(NameOf(Last(match))) ELSE null,
          !.tags = IF tags THEN Split(Slice(Last(match1), 1), " ") ELSE <<>>,
          !.field_names = fields_dict[note_type],
          !.curly_cloze = curly]

\* ------------------------------------------------------------ getFields
\* FormatConverter.format: curly clozes become clozes when the flag is set
format(text, cloze) == [i \in 1..Len(text) |-> IF cloze /\ text[i] = "{k}" THEN "{c}" ELSE text[i]]
\* String.prototype.includes('Cloze') on a note type
IncludesCloze(note_type) == note_type \in {"Cloze"}
\* getFields, the last loop of each variant: every value is trimmed,
\* formatted and trimmed
FormatAll(fields, n) ==
    [k \in DOMAIN fields |-> Trim(format(Trim(fields[k]), IncludesCloze(n.note_type) /\ n.curly_cloze))]

\* faulty variant: a line without prefix goes to the last declared field
fieldFromLine_last(names, cur, line) ==
    LET hits == {i \in 1..Len(names) : StartsWith(line, names[i] \o <<":">>)}
    IN IF hits = {} THEN <<line, names[Len(names)]>>
       ELSE LET i == CHOOSE i \in hits : \A j \in hits : i <= j
            IN <<Slice(line, Len(names[i]) + 1), names[i]>>

\* Note.fieldFromLine: the first declared field whose "<field>:" starts the
\* line, else the current field
fieldFromLine(names, cur, line) ==
    LET hits == {i \in 1..Len(names) : StartsWith(line, names[i] \o <<":">>)}
    IN IF hits = {} THEN <<line, cur>>
       ELSE LET i == CHOOSE i \in hits : \A j \in hits : i <= j
            IN <<Slice(line, Len(names[i]) + 1), names[i]>>

\* Note.getFields, lines 176-179
RECURSIVE NoteLines(_, _, _, _)
NoteLines(names, cur, lines, fields) ==
    IF lines = <<>> THEN [fields |-> fields, current_field |-> cur]
    ELSE LET r == fieldFromLine(names, cur, Head(lines))
         IN NoteLines(names, r[2], Tail(lines), [fields EXCEPT ![r[2]] = @ \o r[1] \o <<"\n">>])

\* InlineNote.getFields, lines 233-241
RECURSIVE InlineWords(_, _, _, _)
InlineWords(names, cur, words, fields) ==
    IF words = <<>> THEN [fields |-> fields, current_field |-> cur]
    ELSE LET hits == {i \in 1..Len(names) : Head(words) = names[i] \o <<":">>}
             field == IF hits = {} THEN cur ELSE names[CHOOSE i \in hits : \A j \in hits : i >= j]
             word == IF hits = {} THEN Head(words) ELSE <<>>
         IN InlineWords(names, field, Tail(words), [fields EXCEPT ![field] = @ \o word \o <<" ">>])

\* RegexNote.getFields, lines 291-293: group i goes to field_names[i], which
\* is undefined past the last field
RECURSIVE RegexGroups(_, _, _, _)
RegexGroups(names, groups, i, fields) ==
    IF i > Len(groups) THEN [fields |-> fields, current_field |-> UndefKey]
    ELSE LET key == IF i <= Len(names) THEN names[i] ELSE UndefKey
             value == IF groups[i] = UndefGroup \/ groups[i] = <<>> THEN <<>> ELSE groups[i]
         IN RegexGroups(names, groups, i + 1,
                        [k \in DOMAIN fields \cup {key} |-> IF k = key THEN value ELSE fields[k]])

\* getFields of the three variants; iterating field_names of an object that
\* has no schema throws a TypeError
getFields(n) ==
    IF n.no_note_type
    THEN [threw |-> TRUE, fields |-> [k \in {} |-> <<>>], current_field |-> n.current_field]
    ELSE LET empty == [k \in Range(n.field_names) |-> <<>>]
             r == CASE n.kind = "block" ->
                         NoteLines(n.field_names, n.current_field, Tail(n.split_text), empty)
                    [] n.kind = "inline" ->
                         InlineWords(n.field_names, n.current_field, Split(n.text, " "), empty)
                    [] n.kind = "regex" ->
                         [RegexGroups(n.field_names, Tail(n.match), 1, empty)
                            EXCEPT !.current_field = n.current_field]
         IN [threw |-> FALSE, fields |-> FormatAll(r.fields, n), current_field |-> r.current_field]

\* ------------------------------------------------------------ parse
\* matchCloze / containsCloze, lines 28-36
matchCloze(s) == \E i \in 1..Len(s) : s[i] = "{c}"
containsCloze(fields) == \E k \in DOMAIN fields : matchCloze(fields[k])

Threw == [threw |-> TRUE, modelName |-> "", fields |-> [k \in {} |-> <<>>], tags |-> <<>>,
          identifier |-> null, current_field |-> UndefKey]

\* AbstractNote.parse, lines 125-130: the identifier the record is returned with
ClozeChecked(n, fields) ==
    IF n.note_type = "Cloze" /\ ~containsCloze(fields) THEN CLOZE_ERROR ELSE n.identifier

\* AbstractNote.parse, lines 94-130, with no file link, no frozen fields, no
\* context and add_obs_tags off: getFields is called for the log of line 98,
\* then the schema is looked at, then getFields is called for the record
AbstractParse(n) ==
    LET logged == getFields(n)
        n1 == [n EXCEPT !.current_field = logged.current_field]
        got == getFields(n1)
    IN IF logged.threw THEN Threw
       ELSE IF n.no_note_type
       THEN [threw |-> FALSE, modelName |-> n.note_type, fields |-> [k \in {} |-> <<>>],
             tags |-> <<>>, identifier |-> NOTE_TYPE_ERROR, current_field |-> n1.current_field]
       ELSE [threw |-> FALSE, modelName |-> n.note_type, fields |-> got.fields, tags |-> n.tags,
             identifier |-> ClozeChecked(n, got.fields), current_field |-> got.current_field]

\* RegexNote.parse, lines 313-329, with the same settings
RegexParse(n) ==
    LET got == getFields(n)
    IN [threw |-> FALSE, modelName |-> n.note_type, fields |-> got.fields, tags |-> n.tags,
        identifier |-> n.identifier, current_field |-> got.current_field]

parse(n) == IF n.kind = "regex" THEN RegexParse(n) ELSE AbstractParse(n)

\* ------------------------------------------------------------ actions
\* the parser object is constructed from the span
Construct ==
    /\ src.kind # "none" /\ note.kind = "none"
    /\ note' = CASE src.kind = "block" -> NewNote(SpanText(src), src.curly)
                  [] src.kind = "inline" -> NewInlineNote(SpanText(src), src.curly)
                  [] src.kind = "regex" ->
                       NewRegexNote(SpanMatch(src), src.type, src.tags, src.id, src.curly)
    /\ UNCHANGED <<src, out, shared, pc, manager, history, defaults>>

\* getFields() is called on the object
CallGetFields ==
    /\ note.kind # "none" /\ Len(out) < MaxCalls
    /\ LET r == getFields(note)
       IN /\ out' = Append(out, [op |-> "getFields", threw |-> r.threw, fields |-> r.fields,
                                  identifier |-> note.identifier, before |-> note.current_field])
          /\ note' = [note EXCEPT !.current_field = r.current_field]
    /\ UNCHANGED <<src, shared, pc, manager, history, defaults>>

\* parse() is called on the object
CallParse ==
    /\ note.kind # "none" /\ Len(out) < MaxCalls
    /\ LET r == parse(note)
       IN /\ out' = Append(out, [op |-> "parse", threw |-> r.threw, fields |-> r.fields,
                                  identifier |-> r.identifier, before |-> note.current_field])
          /\ note' = IF r.threw THEN note
                     ELSE [note EXCEPT !.current_field = r.current_field,
                                       !.identifier = r.identifier]
    /\ UNCHANGED <<src, shared, pc, manager, history, defaults>>

ParserInit ==
    /\ onload /\ nextId = 0
    /\ src \in Spans /\ note = NoNote /\ out = <<>>
    /\ tfile = NoFile /\ file_data = NoFileData
ParserNext == Construct \/ CallGetFields \/ CallParse
ParserSpec == ParserInit /\ [][ParserNext]_vars

\* ------------------------------------------------------------ folder defaults
\* FileManager.dataToFileData: the deck and the tags a document gets from the
\* folders it lies in.  Folder k is the folder k levels below the vault root
\* (folder 0); a file of depth d lies in folder d.
MaxDepth == 2       \* folders below the vault root

Root == <<"folder", 0>>
\* TAbstractFile.parent; the vault root has none
HasParent(f) == f # Root
Parent(f) == IF f[1] = "file" THEN <<"folder", f[2]>> ELSE <<"folder", f[2] - 1>>

\* the settings a folder can have: '' where nothing is configured
DeckChoices(k) ==
    CASE k = 1 -> {"", "deck1"} [] k = 2 -> {"", "deck2"} [] OTHER -> {"", "deck3"}
TagChoices(k) ==
    CASE k = 1 -> {<<>>, <<"a1">>, <<"a1", " ", "b1">>}
      [] k = 2 -> {<<>>, <<"a2">>, <<"a2", " ", "b2">>}
      [] OTHER -> {<<>>, <<"a3">>, <<"a3", " ", "b3">>}
Folders == 1..MaxDepth
TFiles ==
    {[depth |-> d, folder_decks |-> decks, folder_tags |-> tags,
      template |-> [deckName |-> "Default", tags |-> tt]] :
        d \in 0..MaxDepth,
        decks \in {f \in [Folders -> UNION {DeckChoices(k) : k \in Folders}] :
                      \A k \in Folders : f[k] \in DeckChoices(k)},
        tags \in {f \in [Folders -> UNION {TagChoices(k) : k \in Folders}] :
                     \A k \in Folders : f[k] \in TagChoices(k)},
        tt \in {<<>>, <<<<"t0">>>>}}

\* getFolderPathList, lines 109-118: the parents from the innermost folder
\* up, the vault root popped
RECURSIVE Parents(_)
Parents(f) == IF HasParent(f) THEN <<Parent(f)>> \o Parents(Parent(f)) ELSE <<>>
getFolderPathList(file) == Pop(Parents(file))

\* getDefaultDeck, lines 120-130
RECURSIVE getDefaultDeck(_, _)
getDefaultDeck(data, folder_path_list) ==
    IF folder_path_list = <<>> THEN data.template.deckName
    ELSE IF data.folder_decks[Head(folder_path_list)[2]] # ""
    THEN data.folder_decks[Head(folder_path_list)[2]]
    ELSE getDefaultDeck(data, Tail(folder_path_list))

\* faulty variant: only the nearest folder with tags counts
RECURSIVE getDefaultTags_nearest(_, _)
getDefaultTags_nearest(data, folder_path_list) ==
    IF folder_path_list = <<>> THEN data.template.tags
    ELSE IF data.folder_tags[Head(folder_path_list)[2]] # <<>>
    THEN Split(data.folder_tags[Head(folder_path_list)[2]], " ") \o data.template.tags
    ELSE getDefaultTags_nearest(data, Tail(folder_path_list))

\* getDefaultTags, lines 132-143
RECURSIVE getDefaultTags(_, _)
getDefaultTags(data, folder_path_list) ==
    IF folder_path_list = <<>> THEN data.template.tags
    ELSE (IF data.folder_tags[Head(folder_path_list)[2]] # <<>>
          THEN Split(data.folder_tags[Head(folder_path_list)[2]], " ") ELSE <<>>)
         \o getDefaultTags(data, Tail(folder_path_list))

\* dataToFileData, lines 145-158
dataToFileData ==
    /\ tfile # NoFile /\ file_data = NoFileData
    /\ LET folder_path_list == getFolderPathList(<<"file", tfile.depth>>)
       IN file_data' = [deckName |-> getDefaultDeck(tfile, folder_path_list),
                        tags |-> getDefaultTags(tfile, folder_path_list)]
    /\ UNCHANGED <<tfile, shared, pc, manager, history, parser>>

FolderInit ==
    /\ onload /\ nextId = 0
    /\ src = NoSrc /\ note = NoNote /\ out = <<>>
    /\ tfile \in TFiles /\ file_data = NoFileData
FolderNext == dataToFileData
FolderSpec == FolderInit /\ [][FolderNext]_vars

\* ----------------------------------------------------------------- claims
\* the pass has been through the filter of initialiseFiles
PastFilter(p) == pc[p] \in {"call1", "modify", "call2", "done", "aborted"}
\* since the pass started there was no other pass in flight and no edit; with
\* prev[p] set, the pass before it and this one ran one after the other
Undisturbed(p) == solo[p] /\ quiet[p]
\* the step is the end of scanVault (lines 173-179) of pass p
EndsPass(p) == pc[p] = "call2" /\ pc'[p] = "done"
\* the text the manager of pass p holds for its i-th changed document
HeldText(p, i) ==
    IF ownFiles[p][i].path \in written[p] THEN ownFiles[p][i].file ELSE ownFiles[p][i].original_file

\* C1: after a pass that completed, a pass over the unchanged vault keeps no
\* document in its changed set, so neither batched call carries a
\* sub-request and no document is written back.
C1_Idempotent ==
    \A p \in Passes :
        (PastFilter(p) /\ prev[p].kind = "done" /\ Undisturbed(p)) =>
            /\ ownFiles[p] = <<>>
            /\ files[p] = <<>>
            /\ req1[p].add = <<>> /\ req1[p].upd = <<>> /\ req1[p].del = <<>>
            /\ req1[p].info = <<>> /\ req1[p].media = {}
            /\ req2[p].decks = <<>> /\ req2[p].clear = <<>> /\ req2[p].tags = <<>>
            /\ written[p] = {}

\* a second pass ran to its end after a pass that created notes and rewrote documents
C1_Witness ==
    \E p \in Passes :
        /\ pc[p] = "done" /\ prev[p].kind = "done" /\ Undisturbed(p)
        /\ prev[p].written # {}
        /\ req1[p].sent /\ req2[p].sent

\* C2: a document whose create failed in a completed pass is scanned again
\* by the next pass, which issues the create request again.
C2_FailedCreateRetried ==
    \A p \in Passes :
        (PastFilter(p) /\ prev[p].kind = "done" /\ Undisturbed(p)) =>
            \A d \in prev[p].failed :
                \E i \in 1..Len(ownFiles[p]) : ownFiles[p][i].path = d /\ req1[p].add[i] >= 1

\* a pass that threw has left the fingerprint map and the media list alone
AbortLeavesSyncState(p) ==
    (pc[p] = "aborted" /\ solo[p]) =>
        file_hashes = atStart[p].hashes /\ added_media = atStart[p].media
\* the step in which a pass throws changes neither
ThrowStep == \A p \in Passes : (Active(p) /\ pc'[p] = "aborted") => UNCHANGED <<file_hashes, added_media>>

SyncStateStep ==
    (file_hashes' # file_hashes \/ added_media' # added_media \/ persisted' # persisted) =>
        \/ \E p \in Passes : EndsPass(p)
        \/ /\ UNCHANGED <<file_hashes, added_media>>
           /\ persisted' = [hashes |-> file_hashes, media |-> added_media]

\* C4: while a pass is in flight the plugin's fingerprint map and media list
\* are those of the pass start, and so is whatever a save wrote meanwhile;
\* no step of an unfinished pass changes them.
C4_NoPartialPersistence ==
    /\ [](\A p \in Passes :
            (Active(p) /\ solo[p]) =>
                /\ file_hashes = atStart[p].hashes
                /\ added_media = atStart[p].media
                /\ persisted \in {atStart[p].persisted,
                                  [hashes |-> atStart[p].hashes, media |-> atStart[p].media]})
    /\ [][SyncStateStep]_vars

\* onunload saved while a pass held a rewritten document and a new media entry
C4_Witness ==
    \E p \in Passes :
        /\ pc[p] = "call2" /\ solo[p] /\ savedMid[p]
        /\ written[p] # {}
        /\ added_media_set[p] # added_media

\* C5: at most one pass is in flight.
C5_OnePassInFlight == Cardinality({p \in Passes : Active(p)}) <= 1

\* C6: initialiseFiles keeps a document iff the fingerprint map has no entry
\* for its path or the entry differs from the hash of the text read.
C6_ChangeDetection ==
    \A p \in Passes :
        (pc[p] = "call1" /\ solo[p]) =>
            /\ Paths(ownFiles[p]) =
                 {genFiles[p][i].path : i \in
                    {j \in 1..Len(genFiles[p]) :
                        \/ file_hashes[genFiles[p][j].path] = NoHash
                        \/ file_hashes[genFiles[p][j].path] # getHash(genFiles[p][j].original_file)}}
            /\ Len(files[p]) = Len(ownFiles[p])
            /\ Paths(genFiles[p]) = DocSet

\* a pass kept a document whose fingerprint differs and dropped another
C6_Witness ==
    \E p \in Passes :
        /\ pc[p] = "call1" /\ solo[p]
        /\ \E d \in Paths(ownFiles[p]) : file_hashes[d] # NoHash
        /\ Paths(ownFiles[p]) # DocSet

\* the step that ends a pass stores, for every document the pass scanned, the
\* hash of the text it holds: the rewritten one if it wrote, else the one read
EndStoresHeld ==
    \A p \in Passes :
        EndsPass(p) =>
            \A i \in 1..Len(ownFiles[p]) : file_hashes'[ownFiles[p][i].path] = getHash(HeldText(p, i))

\* C7: after a completed pass the fingerprint of every document it scanned
\* is the hash of the text the vault holds for it after write-back.
C7_PostRewriteFingerprint ==
    /\ [](\A p \in Passes :
            (pc[p] = "done" /\ Undisturbed(p)) =>
                \A i \in 1..Len(ownFiles[p]) :
                    /\ file_hashes[ownFiles[p][i].path] = getHash(vault[ownFiles[p][i].path])
                    /\ vault[ownFiles[p][i].path] = HeldText(p, i))
    /\ [][EndStoresHeld]_vars

\* a pass completed that rewrote a document
C7_Witness ==
    \E p \in Passes :
        /\ pc[p] = "done" /\ Undisturbed(p)
        /\ \E i \in 1..Len(ownFiles[p]) :
             /\ ownFiles[p][i].path \in written[p]
             /\ ownFiles[p][i].file # ownFiles[p][i].original_file

\* C8: an erroneous fetch-info sub-response of one document does not make
\* the pass throw.
C8_SubErrorIsolated == \A p \in Passes : ~(pc[p] = "aborted" /\ abortAt[p] = "info_file")

\* the step in which the probe fails changes nothing outside the pass
ProbeFailStep ==
    \A p \in Passes :
        (pc[p] = "probe" /\ pc'[p] = "noconn") =>
            UNCHANGED <<vault, file_hashes, added_media, persisted, nextId, created>>

\* C9: a pass whose probe failed has read nothing, sent nothing, written
\* nothing, and left the sync state and data.json as they were.
C9_ProbeFailureTouchesNothing ==
    /\ [](\A p \in Passes :
            pc[p] = "noconn" =>
                /\ genFiles[p] = <<>> /\ ownFiles[p] = <<>> /\ files[p] = <<>>
                /\ ~req1[p].sent /\ ~req2[p].sent
                /\ written[p] = {}
                /\ solo[p] => /\ file_hashes = atStart[p].hashes
                              /\ added_media = atStart[p].media
                              /\ persisted = atStart[p].persisted)
    /\ [][ProbeFailStep]_vars

\* the probe failed with a document in the vault that has no fingerprint
C9_Witness ==
    \E p \in Passes :
        /\ pc[p] = "noconn" /\ solo[p]
        /\ \E d \in DocSet : file_hashes[d] = NoHash

\* C10: the write-back loop gives a document to vault.modify iff its text
\* after writeIDs and removeEmpties differs from the text read.
C10_WriteBackIffChanged ==
    \A p \in Passes :
        \A i \in 1..Len(ownFiles[p]) :
            i < idx[p] =>
                /\ ownFiles[p][i].path \in written[p]
                     <=> ownFiles[p][i].file # ownFiles[p][i].original_file
                /\ ownFiles[p][i].file = Rewritten(ownFiles[p][i]).file

\* the loop ended having written one document and left another alone
C10_Witness ==
    \E p \in Passes :
        /\ pc[p] = "call2"
        /\ written[p] # {}
        /\ Paths(ownFiles[p]) \ written[p] # {}

\* without overlapping passes the uploaded-media list only grows
MediaGrows == (\A p \in Passes : solo'[p]) => added_media \subseteq added_media'
\* the step that ends a pass stores the set of its manager
EndStoresMedia == \A p \in Passes : EndsPass(p) => added_media' = added_media_set[p]

\* C11: after a completed pass the uploaded-media list is the list at pass
\* start plus every reference an upload was requested for, also when the
\* upload response reports an error; a reference on the list is not
\* requested by a pass, and the list only grows from pass to pass.
C11_OptimisticMedia ==
    /\ [](\A p \in Passes :
            /\ (PastFilter(p) /\ solo[p]) => req1[p].media \cap atStart[p].media = {}
            /\ (pc[p] = "done" /\ solo[p]) => added_media = atStart[p].media \cup req1[p].media)
    /\ [][MediaGrows /\ EndStoresMedia]_vars

\* a pass completed whose upload was answered with an error
C11_Witness ==
    \E p \in Passes :
        /\ pc[p] = "done" /\ solo[p]
        /\ notice[p]
        /\ req1[p].media # {} /\ req1[p].media \subseteq added_media

\* a pass scanned a document that embeds a reference uploaded before
C11_WitnessLater ==
    \E p \in Passes :
        /\ PastFilter(p) /\ solo[p]
        /\ \E i \in 1..Len(ownFiles[p]) : ownFiles[p][i].file.media \cap atStart[p].media # {}

\* the calls made so far on the parser object
Calls == 1..Len(out)
\* the schema of the span is in the registry
KnownSchema == src.kind # "none" /\ src.type \in DOMAIN fields_dict
\* what every variant of getFields does to a field value
Formatted(v) == Trim(format(Trim(v), IncludesCloze(src.type) /\ src.curly))

\* C12: parse() of a block or inline span whose schema is not in the registry
\* returns a record with the identifier 69 and does not throw.
C12_UnknownSchemaFlagged ==
    \A i \in Calls :
        (out[i].op = "parse" /\ src.kind \in {"block", "inline"} /\ ~KnownSchema) =>
            ~out[i].threw /\ out[i].identifier = NOTE_TYPE_ERROR

\* C13: parse() of a span of schema "Cloze" whose formatted fields hold no
\* cloze returns the identifier 42, in the block, inline and regex variants.
C13_ClozeFlagged ==
    \A i \in Calls :
        (out[i].op = "parse" /\ ~out[i].threw /\ src.type = "Cloze" /\ ~containsCloze(out[i].fields)) =>
            out[i].identifier = CLOZE_ERROR

\* C14: for a known schema the keys of the map getFields() returns are
\* exactly the declared field names, in every variant.
C14_FieldMapShape ==
    \A i \in Calls :
        (KnownSchema /\ ~out[i].threw) => DOMAIN out[i].fields = Range(fields_dict[src.type])

\* no declared field's "<field>:" starts a body line of the span
NoPrefix ==
    \A k \in 1..Len(src.body) :
        \A j \in 1..Len(fields_dict[src.type]) :
            ~StartsWith(src.body[k], fields_dict[src.type][j] \o <<":">>)

\* C15: for a block whose body lines carry no field prefix, getFields()
\* returns the whole body, newline-joined (trimmed and formatted as every
\* field value is), for the first declared field and the empty string for
\* the second.
C15_FieldCompleteness ==
    \A i \in Calls :
        (src.kind = "block" /\ KnownSchema /\ NoPrefix) =>
            /\ out[i].fields[fields_dict[src.type][1]] = Formatted(Join(src.body, "\n"))
            /\ out[i].fields[fields_dict[src.type][2]] = <<>>

\* getFields() returned a two-line body as the first field of a block
C15_Witness ==
    /\ src.kind = "block" /\ KnownSchema /\ NoPrefix
    /\ Len(src.body) = 2 /\ src.body[1] # <<>> /\ src.body[2] # <<>>
    /\ \E i \in Calls : out[i].op = "getFields" /\ Len(out[i].fields[A]) = 3

\* the field whose "<field>:" is the longest prefix of the line, else cur
LongestPrefix(names, cur, line) ==
    LET hits == {f \in Range(names) : StartsWith(line, f \o <<":">>)}
    IN IF hits = {} THEN cur ELSE CHOOSE f \in hits : \A g \in hits : Len(g) <= Len(f)
\* the body lines assigned by longest prefix, a line without prefix going to
\* the field of the line before it
RECURSIVE ByLongestPrefix(_, _, _, _)
ByLongestPrefix(names, cur, lines, fields) ==
    IF lines = <<>> THEN fields
    ELSE LET f == LongestPrefix(names, cur, Head(lines))
             rest == IF f = cur /\ ~StartsWith(Head(lines), f \o <<":">>) THEN Head(lines)
                     ELSE Slice(Head(lines), Len(f) + 1)
         IN ByLongestPrefix(names, f, Tail(lines), [fields EXCEPT ![f] = @ \o rest \o <<"\n">>])

\* C16: the first getFields() of a block assigns every body line to the field
\* whose "<field>:" is the longest prefix of the line, whatever the order of
\* declaration, and a line without prefix to the field of the line before.
C16_LongestPrefix ==
    (src.kind = "block" /\ KnownSchema /\ out # <<>> /\ out[1].op = "getFields") =>
        \A f \in Range(fields_dict[src.type]) :
            out[1].fields[f] =
                Formatted(ByLongestPrefix(fields_dict[src.type], fields_dict[src.type][1], src.body,
                                          [g \in Range(fields_dict[src.type]) |-> <<>>])[f])

\* C17: RegexNote takes the last group as identifier when ID capture is
\* configured, then the last remaining group as tags when tag capture is
\* configured; the groups left go to the fields by position, a group that
\* did not participate giving the empty string.
C17_GroupConsumption ==
    (src.kind = "regex" /\ note.kind = "regex") =>
        /\ note.identifier = IF src.id THEN src.idnum ELSE null
        /\ note.tags = IF src.tags THEN <<<<"t">>>> ELSE <<>>
        /\ Tail(note.match) = src.body
        /\ \A i \in Calls :
              \A j \in 1..Len(fields_dict[src.type]) :
                  out[i].fields[fields_dict[src.type][j]] =
                      IF j > Len(src.body) \/ src.body[j] = UndefGroup THEN <<>>
                      ELSE Formatted(src.body[j])

\* a match with ID and tags configured, a group that did not participate and
\* one that did
C17_Witness ==
    /\ src.kind = "regex" /\ src.id /\ src.tags
    /\ Len(src.body) = 2 /\ src.body[1] = UndefGroup /\ src.body[2] # UndefGroup
    /\ \E i \in Calls : out[i].op = "getFields" /\ out[i].fields[B] # <<>>

\* the folders of the file that have a deck configured
WithDeck == {k \in 1..tfile.depth : tfile.folder_decks[k] # ""}
\* the tags of folders k down to 1, innermost first
RECURSIVE TagsFrom(_)
TagsFrom(k) ==
    IF k = 0 THEN <<>>
    ELSE LET own == SelectSeq(tfile.folder_tags[k], LAMBDA t : t # " ")
         IN [i \in 1..Len(own) |-> <<own[i]>>] \o TagsFrom(k - 1)

\* C18: the default deck is the deck of the nearest enclosing folder that
\* has one, else the template deck; the default tags are the tags of every
\* enclosing folder, innermost first, followed by the template tags.
C18_FolderDefaults ==
    file_data # NoFileData =>
        /\ file_data.deckName =
              IF WithDeck = {} THEN tfile.template.deckName
              ELSE tfile.folder_decks[CHOOSE k \in WithDeck : \A j \in WithDeck : j <= k]
        /\ file_data.tags = TagsFrom(tfile.depth) \o tfile.template.tags

\* a file two folders deep, both with tags, the outer one with the deck
C18_Witness ==
    /\ file_data # NoFileData
    /\ tfile.depth = 2
    /\ tfile.folder_decks[2] = "" /\ tfile.folder_decks[1] # ""
    /\ tfile.folder_tags[2] # <<>> /\ tfile.folder_tags[1] # <<>>
    /\ tfile.template.tags # <<>>

\* the place of a path in vault.getMarkdownFiles()
DocIndex(d) == CHOOSE i \in 1..Len(Docs) : Docs[i] = d
\* the step is a vault.modify of pass p that returned
WritesBack(p) == pc[p] = "modify" /\ written'[p] # written[p]
\* vault.modify is given the document that the text was read from
WriteBackAligned ==
    \A p \in Passes :
        WritesBack(p) =>
            /\ written'[p] = written[p] \cup {ownFiles[p][idx[p]].path}
            /\ vault' = [vault EXCEPT ![ownFiles[p][idx[p]].path] = ownFiles[p][idx[p]].file]

\* C19: after initialiseFiles the vault-file list and the scanned-document
\* list have the same length, entry i of both is the same path, both are in
\* the order of the vault's file list; row i of every sub-request list of
\* call 1 is built from document i, the identifiers of response row i go to
\* document i, and document i is written back to its own path.
C19_PositionalAlignment ==
    /\ [](\A p \in Passes :
            PastFilter(p) =>
                /\ Len(files[p]) = Len(ownFiles[p])
                /\ \A i \in 1..Len(ownFiles[p]) :
                      /\ files[p][i] = ownFiles[p][i].path
                      /\ req1[p].add[i] = getAddNotes(ownFiles[p][i])
                      /\ req1[p].info[i] = getNoteInfo(ownFiles[p][i])
                      /\ req1[p].upd[i] = getUpdateFields(ownFiles[p][i])
                      /\ req1[p].del[i] = getDeleteNotes(ownFiles[p][i])
                      /\ Len(ownFiles[p][i].note_ids) \in {0, req1[p].add[i]}
                /\ Len(req1[p].add) = Len(ownFiles[p]) /\ Len(req1[p].info) = Len(ownFiles[p])
                /\ Len(req1[p].upd) = Len(ownFiles[p]) /\ Len(req1[p].del) = Len(ownFiles[p])
                /\ \A i, j \in 1..Len(ownFiles[p]) :
                      i < j =>
                        /\ DocIndex(files[p][i]) < DocIndex(files[p][j])
                        /\ \A a \in Range(ownFiles[p][i].note_ids) \ {0} :
                              \A b \in Range(ownFiles[p][j].note_ids) \ {0} : a < b)
    /\ [][WriteBackAligned]_vars

\* a pass that kept the second document only wrote its new identifier back
C19_Witness ==
    \E p \in Passes :
        /\ pc[p] = "call2"
        /\ Len(ownFiles[p]) = 1 /\ files[p] = <<Docs[2]>>
        /\ written[p] = {Docs[2]}
        /\ Range(ownFiles[p][1].note_ids) \ {0} # {}

\* what a completed pass that wrote n documents back has done, in order
RECURSIVE Times(_, _)
Times(e, n) == IF n = 0 THEN <<>> ELSE <<e>> \o Times(e, n - 1)
PassLog(n) ==
    <<"probe">> \o Times("read", Len(Docs)) \o <<"call1">> \o Times("write", n)
        \o <<"call2", "hashes", "save">>
IsPrefix(s, t) == Len(s) <= Len(t) /\ SubSeq(t, 1, Len(s)) = s

\* C20: a pass probes before it reads, makes call 1 once after the reads,
\* writes back between call 1 and call 2, makes call 2 once, advances the
\* fingerprints after call 2 and saves once, as its last step.
C20_PassOrder ==
    \A p \in Passes :
        /\ \E n \in 0..Len(Docs) : IsPrefix(log[p], PassLog(n))
        /\ pc[p] = "done" => log[p] = PassLog(Cardinality(written[p]))
        /\ Active(p) => Len(log[p]) < Len(PassLog(Cardinality(written[p])))

\* a pass completed that wrote a document back
C20_Witness ==
    \E p \in Passes :
        /\ pc[p] = "done"
        /\ written[p] # {}
        /\ req1[p].sent /\ req2[p].sent

\* the media references of the documents pass p scanned
ScannedMedia(p) == UNION {ownFiles[p][i].original_file.media : i \in 1..Len(ownFiles[p])}
\* the references call 1 of pass p carries an upload request for
Uploads(p) == {req1[p].uploads[k] : k \in 1..Len(req1[p].uploads)}

\* C21: call 1 carries an upload request for exactly the references of the
\* changed documents that are not in the uploaded-media set and resolve to a
\* file, each of them once; a reference that does not resolve is neither
\* requested nor added to the uploaded-media set.
C21_MediaSelection ==
    \A p \in Passes :
        (PastFilter(p) /\ solo[p]) =>
            /\ Uploads(p) = {m \in ScannedMedia(p) : m \notin atStart[p].media /\ Resolves(m)}
            /\ \A j, k \in 1..Len(req1[p].uploads) : j # k => req1[p].uploads[j] # req1[p].uploads[k]
            /\ req1[p].media = Uploads(p)
            /\ added_media_set[p] = atStart[p].media \cup Uploads(p)
            /\ \A m \in ScannedMedia(p) : ~Resolves(m) => m \notin Uploads(p) \cup added_media_set[p]

\* both documents embed the same new reference, and one embeds a reference
\* that does not resolve
C21_Witness ==
    \E p \in Passes :
        /\ PastFilter(p) /\ solo[p]
        /\ Len(ownFiles[p]) = 2
        /\ "m1" \in ownFiles[p][1].original_file.media \cap ownFiles[p][2].original_file.media
        /\ "m2" \in ScannedMedia(p)
        /\ req1[p].uploads = <<"m1">>

\* the records call 1 of pass p carries a create request for
CreateRequests(p) ==
    {c \in DocSet \X (1..MaxNotes) :
        \E i \in 1..Len(ownFiles[p]) :
            ownFiles[p][i].path = c[1] /\ c[2] \in NewPositions(ownFiles[p][i].original_file)}

\* C22: a record the remote store created is not sent in a create request
\* by a later pass, also when the pass that created it threw afterwards.
C22_NoDuplicateCreate ==
    \A p \in Passes :
        (pc[p] = "call1" /\ solo[p]) => CreateRequests(p) \cap created = {}

\* the field map of one getFields() call on a parser as the constructor left it
FreshFields == getFields([note EXCEPT !.current_field = note.field_names[1]]).fields

\* C23: on a block or inline parser every getFields() call returns the same
\* field map, and the record parse() returns holds the field map of one
\* getFields() call on a freshly constructed parser.
C23_GetFieldsRepeatable ==
    (src.kind \in {"block", "inline"} /\ KnownSchema /\ note.kind # "none") =>
        /\ \A i, j \in Calls :
              (out[i].op = "getFields" /\ out[j].op = "getFields") => out[i].fields = out[j].fields
        /\ \A i \in Calls : out[i].op = "parse" => out[i].fields = FreshFields

\* C24: parse() returns the identifier 42 only for a "Cloze" record whose
\* fields hold no cloze and the identifier 69 only for a record of a schema
\* that is not in the registry, whatever ID line the span ends with.
C24_SentinelsMarkInvalid ==
    \A i \in Calls :
        (out[i].op = "parse" /\ ~out[i].threw) =>
            /\ out[i].identifier = CLOZE_ERROR =>
                  (src.type = "Cloze" /\ ~containsCloze(out[i].fields))
            /\ out[i].identifier = NOTE_TYPE_ERROR => ~KnownSchema

\* the documents whose fingerprint-map entry differs between two maps
Differing(old, new) == {d \in DocSet : old[d] # new[d]}
\* the step that ends pass p gives every document of its changed set the
\* hash of the text the manager holds, and touches no other entry
EndFrame ==
    \A p \in Passes :
        EndsPass(p) =>
            /\ \A i \in 1..Len(ownFiles[p]) :
                  file_hashes'[ownFiles[p][i].path] = getHash(ownFiles[p][i].file)
            /\ \A d \in DocSet \ Paths(ownFiles[p]) : file_hashes'[d] = file_hashes[d]
            /\ Differing(file_hashes, file_hashes') \subseteq Paths(ownFiles[p])
            /\ \A d \in DocSet : file_hashes[d] # NoHash => file_hashes'[d] # NoHash

\* C25: a completed pass assigns the fingerprint-map entry of every document
\* in its changed set (the hash of the text it holds for it) and of no other
\* document: the entry of a document that was not scanned is as it was at
\* pass start, and no entry is removed.
C25_FingerprintFrame ==
    /\ [](\A p \in Passes :
            (pc[p] = "done" /\ solo[p]) =>
                /\ \A i \in 1..Len(ownFiles[p]) :
                      file_hashes[ownFiles[p][i].path] = getHash(ownFiles[p][i].file)
                /\ Differing(atStart[p].hashes, file_hashes) \subseteq Paths(ownFiles[p])
                /\ \A d \in DocSet : atStart[p].hashes[d] # NoHash => file_hashes[d] # NoHash)
    /\ [][EndFrame]_vars

\* a pass completed that scanned the second document only, the first one
\* keeping the fingerprint it had
C25_Witness ==
    \E p \in Passes :
        /\ pc[p] = "done" /\ solo[p]
        /\ Paths(ownFiles[p]) = {Docs[2]}
        /\ file_hashes[Docs[1]] # NoHash
        /\ file_hashes[Docs[1]] = atStart[p].hashes[Docs[1]]
        /\ file_hashes[Docs[2]] # atStart[p].hashes[Docs[2]]

====
